---- MODULE Spec2Model ----
(***************************************************************************)
(* Model of the session relay of main.go: the process-wide sessions map,   *)
(* the mutex mu that protects it, one goroutine per /host or /join request *)
(* (handleHost / handleJoin, then handleMessages with its deferred         *)
(* teardown), and the /close request handler (handleClose).                *)
(*                                                                         *)
(* Granularity. A goroutine takes one step per statement that touches      *)
(* shared state.  mu.Lock() is taken together with the first read of the   *)
(* map that follows it (and, in the handlers, with the request's arrival:  *)
(* a goroutine that waits for the mutex has no effect yet), every loop     *)
(* iteration is a step of its own, and mu.Unlock() is taken together with  *)
(* the last statement of the critical section, except in handleClose,      *)
(* whose answer is written before the deferred unlock.  A blocking         *)
(* ReadMessage is a step of the peer (a message arrives, or the peer goes  *)
(* away and the read fails) or of the server (the read fails on a          *)
(* transport that handleClose has closed).  A transport breaks only under  *)
(* a blocked read: a peer that goes away while its goroutine relays is     *)
(* seen at the next read.                                                  *)
(***************************************************************************)
EXTENDS Naturals, Sequences, FiniteSets

(* ------------------------------ bounds -------------------------------- *)

\* Number of /host and /join requests (one connection, one goroutine each).
NumConns == 3

Conns == 1..NumConns

\* The goroutine that serves /close requests, one request after the other:
\* a request is taken when its mu.Lock() succeeds, so requests that wait for
\* the mutex are no different from requests that have not arrived.
Closers == {0}
Ctx == Conns \cup Closers

\* Session ids that requests carry; "" is the missing id the handlers reject.
SessionIDs == {"a", "b"}
RequestIDs == SessionIDs \cup {""}

\* Payloads a peer may send.
Msgs == {"m1", "m2"}
NoMsg == "-"

\* The control frame handleClose writes before closing a connection.
CloseMessage == "close:1000:Game closed"

\* HTTP statuses handleClose answers with inside its critical section.
StatusOK == 200
StatusNotFound == 404

(* ------------------------------- state -------------------------------- *)

VARIABLES
    sessions,   \* the map: a function from the ids that have an entry to slices
    mu,         \* the mutex: TRUE when locked
    pc,         \* position of every goroutine
    sid,        \* the id / sessionID parameter of every goroutine
    msg,        \* the message a connection's goroutine has read and not yet relayed
    conns,      \* the local slice of a goroutine (conns, or the ranged-over slice)
    idx,        \* the loop index of a goroutine
    transport,  \* state of every connection's transport
    wire,       \* what the critical section in progress has written and closed, in order
    evicted     \* history: the connections whose entry handleClose deleted and
                \* whose goroutine has not finished removeConnection yet

vars == <<sessions, mu, pc, sid, msg, conns, idx, transport, wire, evicted>>

(* ------------------------- the map and slices ------------------------- *)

\* make(map[string][]*websocket.Conn)
EmptyMap == [k \in {} |-> <<>>]

\* sessions[id] read as Go reads a map: a missing key yields the nil slice.
Lookup(m, id) == IF id \in DOMAIN m THEN m[id] ELSE <<>>

\* sessions[id] = s
Store(m, id, s) == [k \in DOMAIN m \cup {id} |-> IF k = id THEN s ELSE m[k]]

\* The registry emptied where one entry was to be deleted
\* (sessions = make(map[string][]*websocket.Conn)).
DeleteAll(m, id) == EmptyMap

\* delete(sessions, id)
Delete(m, id) == [k \in DOMAIN m \ {id} |-> m[k]]

\* The connections a slice holds.
Range(s) == {s[i] : i \in 1..Len(s)}

\* The loop of removeConnection with its result read after the loop: without
\* a match the index is left at the last element.
FirstIndexOrLast(s, c) ==
    IF \E i \in 1..Len(s) : s[i] = c
    THEN CHOOSE i \in 1..Len(s) : s[i] = c /\ \A j \in 1..(i - 1) : s[j] # c
    ELSE Len(s)

\* The search with its index declared before the loop: without a match the
\* index keeps its initial value, the first position.
FirstIndexOrFirst(s, c) ==
    IF \E i \in 1..Len(s) : s[i] = c
    THEN CHOOSE i \in 1..Len(s) : s[i] = c /\ \A j \in 1..(i - 1) : s[j] # c
    ELSE 1

\* The index the loop of removeConnection stops at: the first i with
\* conns[i] = c, and 0 when the loop runs to its end without a match.
FirstIndex(s, c) ==
    IF \E i \in 1..Len(s) : s[i] = c
    THEN CHOOSE i \in 1..Len(s) : s[i] = c /\ \A j \in 1..(i - 1) : s[j] # c
    ELSE 0

\* Removal by overwriting position i with the last element and truncating.
RemoveSwap(s, i) == [j \in 1..(Len(s) - 1) |-> IF j = i THEN s[Len(s)] ELSE s[j]]

\* append(conns[:i], conns[i+1:]...) with i counted from 1.
RemoveAt(s, i) == SubSeq(s, 1, i - 1) \o SubSeq(s, i + 1, Len(s))

\* removeConnection that stores the slice back whether or not it found c.
removeConnectionAlwaysStore(m, id, s, c) ==
    LET i == FirstIndex(s, c)
    IN  Store(m, id, IF i = 0 THEN s ELSE RemoveAt(s, i))

\* removeConnection that drops the entry of a session it has emptied.
removeConnectionCleanup(m, id, s, c) ==
    LET i == FirstIndex(s, c)
    IN  IF i = 0 THEN m
        ELSE IF Len(s) = 1 THEN Delete(m, id)
        ELSE Store(m, id, RemoveAt(s, i))

\* removeConnection that cuts the match out of its local slice only
\* (conns = append(...)) and never stores the result in the map.
removeConnectionLocal(m, id, s, c) == m

\* The body of removeConnection on map m once it has read the slice s of
\* session id: the first match is cut out and the slice stored back; without
\* a match the map is not written.
removeConnection(m, id, s, c) ==
    LET i == FirstIndex(s, c)
    IN  IF i = 0 THEN m ELSE Store(m, id, RemoveAt(s, i))

(* ----------------------------- transports ----------------------------- *)

\* conn.WriteMessage returns nil only on a transport that is still open.
WriteOK(c) == transport[c] = "open"

\* conn.Close(): idempotent; a connection that was never upgraded has none.
Closed(t, c) == [t EXCEPT ![c] = "closed"]

WriteEvent(c, m) == [op |-> "write", conn |-> c, data |-> m, ok |-> WriteOK(c)]
CloseEvent(c) == [op |-> "close", conn |-> c, data |-> NoMsg, ok |-> TRUE]

\* w.WriteHeader / http.Error: the status a /close request is answered with.
StatusEvent(code) == [op |-> "status", conn |-> 0, data |-> code, ok |-> TRUE]

(* ------------------------------ the mutex ----------------------------- *)

\* A lock that does not wait for the holder.
LockNoWait == mu' = TRUE

\* mu.Lock(): blocks while the mutex is held.
Lock == mu = FALSE /\ mu' = TRUE

\* mu.Unlock()
Unlock == mu' = FALSE

(* -------------------------------- Init -------------------------------- *)

Init ==
    /\ sessions = EmptyMap
    /\ mu = FALSE
    /\ pc = [x \in Ctx |-> "idle"]
    /\ sid = [x \in Ctx |-> ""]
    /\ msg = [c \in Conns |-> NoMsg]
    /\ conns = [x \in Ctx |-> <<>>]
    /\ idx = [x \in Ctx |-> 0]
    /\ transport = [c \in Conns |-> "none"]
    /\ wire = <<>>
    /\ evicted = {}

(* ----------------------- handleHost / handleJoin ---------------------- *)

\* upgrader.Upgrade returns a connection no earlier request was given: the
\* connections are numbered in the order the upgrades hand them out.
Fresh(c) == pc[c] = "idle" /\ \A d \in Conns : d < c => pc[d] # "idle"

\* Lines 25-38: the id check and the upgrade (a request without an id, or
\* whose upgrade fails, returns before it touches the registry), mu.Lock()
\* and the read of sessions[id] that append starts from.
handleHost(c, id, upgraded) ==
    /\ Fresh(c)
    /\ \/ /\ id = "" \/ ~upgraded
          /\ UNCHANGED <<mu, pc, sid, conns, transport>>
       \/ /\ id # "" /\ upgraded
          /\ Lock
          /\ transport' = [transport EXCEPT ![c] = "open"]
          /\ sid' = [sid EXCEPT ![c] = id]
          /\ conns' = [conns EXCEPT ![c] = Lookup(sessions, id)]
          /\ pc' = [pc EXCEPT ![c] = "hostAppend"]
    /\ UNCHANGED <<sessions, msg, idx, wire, evicted>>

\* The handler with the append executed twice.
handleHostAppendTwice(c) ==
    /\ pc[c] = "hostAppend"
    /\ sessions' = Store(sessions, sid[c], Append(Append(conns[c], c), c))
    /\ Unlock
    /\ conns' = [conns EXCEPT ![c] = <<>>]
    /\ pc' = [pc EXCEPT ![c] = "read"]
    /\ UNCHANGED <<sid, msg, idx, transport, wire, evicted>>

\* Lines 38-42: sessions[id] = append(..., conn); mu.Unlock(); handleMessages.
handleHostAppend(c) ==
    /\ pc[c] = "hostAppend"
    /\ sessions' = Store(sessions, sid[c], Append(conns[c], c))
    /\ Unlock
    /\ conns' = [conns EXCEPT ![c] = <<>>]
    /\ pc' = [pc EXCEPT ![c] = "read"]
    /\ UNCHANGED <<sid, msg, idx, transport, wire, evicted>>

\* handleJoin without waiting for the mutex.
handleJoinUnlocked(c, id, upgraded) ==
    /\ Fresh(c)
    /\ \/ /\ id = "" \/ ~upgraded
          /\ UNCHANGED <<mu, pc, sid, conns, transport>>
       \/ /\ id # "" /\ upgraded
          /\ mu' = TRUE
          /\ transport' = [transport EXCEPT ![c] = "open"]
          /\ sid' = [sid EXCEPT ![c] = id]
          /\ conns' = [conns EXCEPT ![c] = Lookup(sessions, id)]
          /\ pc' = [pc EXCEPT ![c] = "joinAppend"]
    /\ UNCHANGED <<sessions, msg, idx, wire, evicted>>

\* Lines 47-60: as handleHost.
handleJoin(c, id, upgraded) ==
    /\ Fresh(c)
    /\ \/ /\ id = "" \/ ~upgraded
          /\ UNCHANGED <<mu, pc, sid, conns, transport>>
       \/ /\ id # "" /\ upgraded
          /\ Lock
          /\ transport' = [transport EXCEPT ![c] = "open"]
          /\ sid' = [sid EXCEPT ![c] = id]
          /\ conns' = [conns EXCEPT ![c] = Lookup(sessions, id)]
          /\ pc' = [pc EXCEPT ![c] = "joinAppend"]
    /\ UNCHANGED <<sessions, msg, idx, wire, evicted>>

\* Lines 60-64.
handleJoinAppend(c) ==
    /\ pc[c] = "joinAppend"
    /\ sessions' = Store(sessions, sid[c], Append(conns[c], c))
    /\ Unlock
    /\ conns' = [conns EXCEPT ![c] = <<>>]
    /\ pc' = [pc EXCEPT ![c] = "read"]
    /\ UNCHANGED <<sid, msg, idx, transport, wire, evicted>>

(* ---------------------------- handleMessages -------------------------- *)

\* Line 75, err == nil: the peer's next message m arrives on an open transport.
\* The loop with the relay started as a goroutine of its own
\* (go broadcastMessage): the next read does not wait for it.
ReadMessageAhead(c, m) ==
    /\ pc[c] \in {"read", "relay"}
    /\ transport[c] = "open"
    /\ msg' = [msg EXCEPT ![c] = m]
    /\ pc' = [pc EXCEPT ![c] = "relay"]
    /\ UNCHANGED <<sessions, mu, sid, conns, idx, transport, wire, evicted>>

ReadMessage(c, m) ==
    /\ pc[c] = "read"
    /\ transport[c] = "open"
    /\ msg' = [msg EXCEPT ![c] = m]
    /\ pc' = [pc EXCEPT ![c] = "relay"]
    /\ UNCHANGED <<sessions, mu, sid, conns, idx, transport, wire, evicted>>

\* The loop with continue in place of break: the failed read is retried.
ReadErrorRetry(c) ==
    /\ pc[c] = "read"
    /\ transport[c] = "closed"
    /\ UNCHANGED vars

\* Lines 75-78, err != nil on a transport the server has closed (handleClose
\* closed it): the read fails, the loop is left, the deferred function is next.
ReadError(c) ==
    /\ pc[c] = "read"
    /\ transport[c] = "closed"
    /\ pc' = [pc EXCEPT ![c] = "defer"]
    /\ UNCHANGED <<sessions, mu, sid, msg, conns, idx, transport, wire, evicted>>

\* Lines 75-78, err != nil because the peer disconnected or the network
\* failed: the blocked read returns the error of the transport that broke.
PeerFail(c) ==
    /\ pc[c] = "read"
    /\ transport[c] = "open"
    /\ transport' = [transport EXCEPT ![c] = "broken"]
    /\ pc' = [pc EXCEPT ![c] = "defer"]
    /\ UNCHANGED <<sessions, mu, sid, msg, conns, idx, wire, evicted>>

\* The deferred function without its call of removeConnection: the
\* connection is closed and the goroutine returns.
deferCloseReturn(c) ==
    /\ pc[c] = "defer"
    /\ transport' = Closed(transport, c)
    /\ sid' = [sid EXCEPT ![c] = ""]
    /\ pc' = [pc EXCEPT ![c] = "done"]
    /\ evicted' = evicted \ {c}
    /\ UNCHANGED <<sessions, mu, msg, conns, idx, wire>>

\* The deferred function without conn.Close(): removeConnection is next.
deferNoClose(c) ==
    /\ pc[c] = "defer"
    /\ pc' = [pc EXCEPT ![c] = "leave"]
    /\ UNCHANGED <<sessions, mu, sid, msg, conns, idx, transport, wire, evicted>>

\* Line 70: the deferred conn.Close().
deferClose(c) ==
    /\ pc[c] = "defer"
    /\ transport' = Closed(transport, c)
    /\ pc' = [pc EXCEPT ![c] = "leave"]
    /\ UNCHANGED <<sessions, mu, sid, msg, conns, idx, wire, evicted>>

(* --------------------------- broadcastMessage ------------------------- *)

\* Lines 82, 88-91: mu.Lock() and the evaluation of the range expression.
broadcastLock(c) ==
    /\ pc[c] = "relay"
    /\ Lock
    /\ conns' = [conns EXCEPT ![c] = Lookup(sessions, sid[c])]
    /\ idx' = [idx EXCEPT ![c] = 1]
    /\ pc' = [pc EXCEPT ![c] = "bcast"]
    /\ UNCHANGED <<sessions, sid, msg, transport, wire, evicted>>

\* broadcastSend with the sender skipped (an echo-suppressing relay).
broadcastSendNoEcho(c) ==
    /\ pc[c] = "bcast"
    /\ idx[c] <= Len(conns[c])
    /\ wire' = IF conns[c][idx[c]] = c THEN wire
               ELSE Append(wire, WriteEvent(conns[c][idx[c]], msg[c]))
    /\ idx' = [idx EXCEPT ![c] = idx[c] + 1]
    /\ UNCHANGED <<sessions, mu, pc, sid, msg, conns, transport, evicted>>

\* broadcastSend leaving the loop at the first write error.
broadcastSendBreak(c) ==
    /\ pc[c] = "bcast"
    /\ idx[c] <= Len(conns[c])
    /\ wire' = Append(wire, WriteEvent(conns[c][idx[c]], msg[c]))
    /\ idx' = [idx EXCEPT ![c] = IF WriteOK(conns[c][idx[c]]) THEN idx[c] + 1
                                 ELSE Len(conns[c]) + 1]
    /\ UNCHANGED <<sessions, mu, pc, sid, msg, conns, transport, evicted>>

\* Lines 91-95: one iteration; a write error is logged and the loop goes on.
broadcastSend(c) ==
    /\ pc[c] = "bcast"
    /\ idx[c] <= Len(conns[c])
    /\ wire' = Append(wire, WriteEvent(conns[c][idx[c]], msg[c]))
    /\ idx' = [idx EXCEPT ![c] = idx[c] + 1]
    /\ UNCHANGED <<sessions, mu, pc, sid, msg, conns, transport, evicted>>

\* broadcastMessage without its deferred mu.Unlock(): the goroutine goes
\* back to ReadMessage with the mutex held.
broadcastReturnLocked(c) ==
    /\ pc[c] = "bcast"
    /\ idx[c] > Len(conns[c])
    /\ conns' = [conns EXCEPT ![c] = <<>>]
    /\ idx' = [idx EXCEPT ![c] = 0]
    /\ msg' = [msg EXCEPT ![c] = NoMsg]
    /\ wire' = <<>>
    /\ pc' = [pc EXCEPT ![c] = "read"]
    /\ UNCHANGED <<sessions, mu, sid, transport, evicted>>

\* Line 96 and the deferred mu.Unlock(); back to ReadMessage.
broadcastReturn(c) ==
    /\ pc[c] = "bcast"
    /\ idx[c] > Len(conns[c])
    /\ Unlock
    /\ conns' = [conns EXCEPT ![c] = <<>>]
    /\ idx' = [idx EXCEPT ![c] = 0]
    /\ msg' = [msg EXCEPT ![c] = NoMsg]
    /\ wire' = <<>>
    /\ pc' = [pc EXCEPT ![c] = "read"]
    /\ UNCHANGED <<sessions, sid, transport, evicted>>

(* --------------------------- removeConnection ------------------------- *)

\* Lines 71, 100-103: mu.Lock() and conns := sessions[sessionID].
removeLock(c) ==
    /\ pc[c] = "leave"
    /\ Lock
    /\ conns' = [conns EXCEPT ![c] = Lookup(sessions, sid[c])]
    /\ pc' = [pc EXCEPT ![c] = "remove"]
    /\ UNCHANGED <<sessions, sid, msg, idx, transport, wire, evicted>>

\* Lines 104-110: the search, the removal of the match, the deferred unlock.
removeBody(c) ==
    /\ pc[c] = "remove"
    /\ sessions' = removeConnection(sessions, sid[c], conns[c], c)
    /\ Unlock
    /\ conns' = [conns EXCEPT ![c] = <<>>]
    /\ sid' = [sid EXCEPT ![c] = ""]
    /\ pc' = [pc EXCEPT ![c] = "done"]
    /\ evicted' = evicted \ {c}
    /\ UNCHANGED <<msg, idx, transport, wire>>

(* ------------------------------ handleClose --------------------------- *)

\* Lines 113-123: the id check (a request without an id is answered 400 and
\* returns), mu.Lock() and conns, exists := sessions[id].
handleClose(k, id) ==
    /\ pc[k] = "idle"
    /\ \/ /\ id = ""
          /\ UNCHANGED <<mu, pc, sid, conns, idx>>
       \/ /\ id # ""
          /\ Lock
          /\ sid' = [sid EXCEPT ![k] = id]
          /\ \/ /\ id \in DOMAIN sessions
                /\ conns' = [conns EXCEPT ![k] = sessions[id]]
                /\ idx' = [idx EXCEPT ![k] = 1]
                /\ pc' = [pc EXCEPT ![k] = "closeLoop"]
             \/ /\ id \notin DOMAIN sessions
                /\ pc' = [pc EXCEPT ![k] = "closeMissing"]
                /\ UNCHANGED <<conns, idx>>
    /\ UNCHANGED <<sessions, msg, transport, wire, evicted>>

\* closeEach that writes the close frame and leaves the transport open.
closeEachNoClose(k) ==
    /\ pc[k] = "closeLoop"
    /\ idx[k] <= Len(conns[k])
    /\ wire' = Append(wire, WriteEvent(conns[k][idx[k]], CloseMessage))
    /\ idx' = [idx EXCEPT ![k] = idx[k] + 1]
    /\ UNCHANGED <<sessions, mu, pc, sid, msg, conns, transport, evicted>>

\* Lines 124-127: one iteration: the close frame, then conn.Close().
closeEach(k) ==
    /\ pc[k] = "closeLoop"
    /\ idx[k] <= Len(conns[k])
    /\ LET c == conns[k][idx[k]]
       IN  /\ wire' = wire \o <<WriteEvent(c, CloseMessage), CloseEvent(c)>>
           /\ transport' = Closed(transport, c)
    /\ idx' = [idx EXCEPT ![k] = idx[k] + 1]
    /\ UNCHANGED <<sessions, mu, pc, sid, msg, conns, evicted>>

\* closeDelete without the delete: the closed connections stay registered.
closeDeleteKeep(k) ==
    /\ pc[k] = "closeLoop"
    /\ idx[k] > Len(conns[k])
    /\ wire' = Append(wire, StatusEvent(StatusOK))
    /\ conns' = [conns EXCEPT ![k] = <<>>]
    /\ idx' = [idx EXCEPT ![k] = 0]
    /\ pc' = [pc EXCEPT ![k] = "closeReturn"]
    /\ evicted' = evicted \cup Range(Lookup(sessions, sid[k]))
    /\ UNCHANGED <<sessions, mu, sid, msg, transport>>

\* Lines 128-131: the entry is deleted and 200 is written.
closeDelete(k) ==
    /\ pc[k] = "closeLoop"
    /\ idx[k] > Len(conns[k])
    /\ sessions' = Delete(sessions, sid[k])
    /\ wire' = Append(wire, StatusEvent(StatusOK))
    /\ conns' = [conns EXCEPT ![k] = <<>>]
    /\ idx' = [idx EXCEPT ![k] = 0]
    /\ pc' = [pc EXCEPT ![k] = "closeReturn"]
    /\ evicted' = evicted \cup Range(Lookup(sessions, sid[k]))
    /\ UNCHANGED <<mu, sid, msg, transport>>

\* Lines 132-134: no entry: 404 is written, nothing else happens.
closeNotFound(k) ==
    /\ pc[k] = "closeMissing"
    /\ wire' = Append(wire, StatusEvent(StatusNotFound))
    /\ pc' = [pc EXCEPT ![k] = "closeReturn"]
    /\ UNCHANGED <<sessions, mu, sid, msg, conns, idx, transport, evicted>>

\* Line 135: the deferred mu.Unlock(); the request is over.
closeReturn(k) ==
    /\ pc[k] = "closeReturn"
    /\ Unlock
    /\ sid' = [sid EXCEPT ![k] = ""]
    /\ wire' = <<>>
    /\ pc' = [pc EXCEPT ![k] = "idle"]
    /\ UNCHANGED <<sessions, msg, conns, idx, transport, evicted>>

(* ----------------------------- specification -------------------------- *)

Next ==
    \/ \E c \in Conns, id \in RequestIDs, u \in BOOLEAN : handleHost(c, id, u)
    \/ \E c \in Conns : handleHostAppend(c)
    \/ \E c \in Conns, id \in RequestIDs, u \in BOOLEAN : handleJoin(c, id, u)
    \/ \E c \in Conns : handleJoinAppend(c)
    \/ \E c \in Conns, m \in Msgs : ReadMessage(c, m)
    \/ \E c \in Conns : ReadError(c)
    \/ \E c \in Conns : PeerFail(c)
    \/ \E c \in Conns : deferClose(c)
    \/ \E c \in Conns : broadcastLock(c)
    \/ \E c \in Conns : broadcastSend(c)
    \/ \E c \in Conns : broadcastReturn(c)
    \/ \E c \in Conns : removeLock(c)
    \/ \E c \in Conns : removeBody(c)
    \/ \E k \in Closers, id \in RequestIDs : handleClose(k, id)
    \/ \E k \in Closers : closeEach(k)
    \/ \E k \in Closers : closeDelete(k)
    \/ \E k \in Closers : closeNotFound(k)
    \/ \E k \in Closers : closeReturn(k)

Spec == Init /\ [][Next]_vars

\* The steps of a connection's goroutine that wait for nothing: the code
\* between its blocking calls, and the return of ReadMessage on a transport
\* that has been closed.
Running(c) ==
    \/ handleHostAppend(c)
    \/ handleJoinAppend(c)
    \/ ReadError(c)
    \/ deferClose(c)
    \/ broadcastSend(c)
    \/ broadcastReturn(c)
    \/ removeBody(c)

\* The steps of a connection's goroutine that wait in mu.Lock().
Locking(c) == broadcastLock(c) \/ removeLock(c)

\* The steps of handleClose after its mu.Lock().
Closing(k) == closeEach(k) \/ closeDelete(k) \/ closeNotFound(k) \/ closeReturn(k)

\* The scheduling the Go runtime gives the handlers: a runnable goroutine
\* runs, and a goroutine waiting in mu.Lock() gets the mutex (sync.Mutex
\* hands a starving waiter the lock). Requests, messages of the peers and
\* failures of the peers' transports are not forced to happen.
FairSpec ==
    /\ Spec
    /\ \A c \in Conns : WF_vars(Running(c)) /\ SF_vars(Locking(c))
    /\ \A k \in Closers : WF_vars(Closing(k))

(* ------------------------------ vocabulary ---------------------------- *)

\* The connections a sequence of exchanges was addressed to, in order.
Targets(w) == [i \in 1..Len(w) |-> w[i].conn]

\* The positions inside a critical section (between mu.Lock and mu.Unlock).
Critical == {"hostAppend", "joinAppend", "bcast", "remove",
             "closeLoop", "closeMissing", "closeReturn"}

\* Positions of a goroutine whose connection has been appended and whose
\* deferred teardown has not closed it yet.
Serving == {"read", "relay", "bcast", "defer"}

\* A goroutine is taking the step that ends its join.
JoinStep(c) == pc[c] \in {"hostAppend", "joinAppend"} /\ pc'[c] = "read"

(* --------------------------------- C1 --------------------------------- *)

\* Every collection lists connections of its own session, in the order they
\* joined (connections are numbered in upgrade order and an upgrade is
\* followed at once by its append), each once.
JoinOrdered ==
    \A S \in DOMAIN sessions :
        /\ \A i, j \in 1..Len(sessions[S]) : i < j => sessions[S][i] < sessions[S][j]
        /\ \A c \in Range(sessions[S]) : sid[c] = S /\ pc[c] \in Serving \cup {"leave", "remove"}

\* A joined connection that nobody has closed is in its session's collection.
JoinedPresent ==
    \A c \in Conns :
        pc[c] \in Serving /\ transport[c] # "closed"
            => c \in Range(Lookup(sessions, sid[c]))

\* A broadcast has written its message, and nothing else, once to each of the
\* first idx-1 connections of the collection, in order, and when its loop is
\* over to the whole collection.
BroadcastExact ==
    \A c \in Conns :
        pc[c] = "bcast" =>
            LET coll == Lookup(sessions, sid[c])
            IN  /\ msg[c] \in Msgs
                /\ Len(wire) = idx[c] - 1
                /\ Len(wire) <= Len(coll)
                /\ \A i \in 1..Len(wire) :
                       /\ wire[i].op = "write"
                       /\ wire[i].conn = coll[i]
                       /\ wire[i].data = msg[c]
                /\ idx[c] > Len(conns[c]) => Len(wire) = Len(coll)

\* A join appends the joining connection at the end of its collection.
JoinAppends ==
    \A c \in Conns :
        JoinStep(c) =>
            /\ sid[c] \in DOMAIN sessions'
            /\ sessions'[sid[c]] = Append(Lookup(sessions, sid[c]), c)

\* C1: after Joins of k distinct connections into session S, with no Leave and
\* no CloseSession, S's collection holds exactly those k connections in join
\* order, and a Broadcast(S, m) makes exactly one send attempt of m to each of
\* them, the sender included, and to no other connection.
C1_JoinsThenBroadcast ==
    /\ [](JoinOrdered /\ JoinedPresent /\ BroadcastExact)
    /\ [][JoinAppends]_vars

\* Three connections have joined one session, none has left, and the
\* broadcast of the second one has written to all three.
C1_Witness ==
    \E S \in SessionIDs :
        /\ S \in DOMAIN sessions
        /\ sessions[S] = <<1, 2, 3>>
        /\ \A c \in Conns : pc[c] \in Serving /\ transport[c] # "closed"
        /\ pc[2] = "bcast"
        /\ idx[2] > Len(conns[2])
        /\ Targets(wire) = <<1, 2, 3>>

(* --------------------------------- C2 --------------------------------- *)

\* The connections that have joined S and that nobody has closed.
Joined(S) ==
    {c \in Conns : sid[c] = S /\ pc[c] \in Serving /\ transport[c] # "closed"}

\* How often c occurs in s.
Count(s, c) == Cardinality({i \in 1..Len(s) : s[i] = c})

\* No join is lost or duplicated: every joined connection is in its
\* collection once, and a collection none of whose connections was closed
\* has as many entries as connections have joined.
NoLostJoin ==
    \A S \in SessionIDs :
        /\ \A c \in Joined(S) : Count(Lookup(sessions, S), c) = 1
        /\ (\A c \in Conns : sid[c] = S => transport[c] # "closed")
               => Len(Lookup(sessions, S)) = Cardinality(Joined(S))

\* A finished broadcast has delivered its message once to every joined connection.
DeliveredOnce ==
    \A c \in Conns :
        pc[c] = "bcast" /\ idx[c] > Len(conns[c]) =>
            \A d \in Joined(sid[c]) :
                Cardinality({i \in 1..Len(wire) :
                    wire[i].conn = d /\ wire[i].data = msg[c]}) = 1

\* The slice a goroutine works on inside its critical section is the
\* collection as it is now: no join or removal has changed it meanwhile.
AtomicView ==
    \A x \in Ctx :
        pc[x] \in {"hostAppend", "joinAppend", "bcast", "remove", "closeLoop"}
            => conns[x] = Lookup(sessions, sid[x])

\* C2: concurrent Joins to one session id are neither lost nor duplicated, a
\* following Broadcast reaches each joined connection exactly once, and a
\* Broadcast concurrent with a Join sees the collection with or without the
\* joining connection, never a partial update.
C2_ConcurrentJoins == NoLostJoin /\ DeliveredOnce /\ AtomicView

\* Three joins to a session that did not exist have completed and the
\* broadcast of the first joiner has run through the collection.
C2_Witness ==
    \E S \in SessionIDs :
        /\ Joined(S) = Conns
        /\ Len(Lookup(sessions, S)) = NumConns
        /\ pc[1] = "bcast"
        /\ idx[1] > Len(conns[1])
        /\ Len(wire) = NumConns

(* --------------------------------- C3 --------------------------------- *)

\* While handleClose walks an existing session, it has sent the close frame
\* to and then closed each of the first idx-1 connections, in insertion
\* order, and at the end of the loop all of them.
CloseProgress ==
    \A k \in Closers :
        pc[k] = "closeLoop" =>
            /\ sid[k] \in DOMAIN sessions
            /\ LET coll == sessions[sid[k]]
                   n == idx[k] - 1
               IN  /\ n <= Len(coll)
                   /\ Len(wire) = 2 * n
                   /\ \A i \in 1..n :
                          /\ wire[2 * i - 1].op = "write"
                          /\ wire[2 * i - 1].conn = coll[i]
                          /\ wire[2 * i - 1].data = CloseMessage
                          /\ wire[2 * i].op = "close"
                          /\ wire[2 * i].conn = coll[i]
                          /\ transport[coll[i]] = "closed"
                   /\ idx[k] > Len(conns[k]) => n = Len(coll)

\* Without an entry handleClose touches no connection; once it has answered,
\* the session has no entry, and the answer is the last thing it wrote.
CloseAnswered ==
    \A k \in Closers :
        /\ pc[k] = "closeMissing" => sid[k] \notin DOMAIN sessions /\ wire = <<>>
        /\ pc[k] = "closeReturn" =>
               /\ sid[k] \notin DOMAIN sessions
               /\ wire # <<>>
               /\ wire[Len(wire)].op = "status"
               /\ wire[Len(wire)].data \in {StatusOK, StatusNotFound}
               /\ wire[Len(wire)].data = StatusNotFound => Len(wire) = 1

\* The steps of handleClose: the registry changes only when the entry of an
\* existing session is removed, which is answered 200; a missing session is
\* answered 404 and changes nothing.
CloseSteps ==
    \A k \in Closers :
        /\ pc[k] = "closeLoop" /\ pc'[k] = "closeLoop" => sessions' = sessions
        /\ pc[k] = "closeLoop" /\ pc'[k] = "closeReturn" =>
               /\ DOMAIN sessions' = DOMAIN sessions \ {sid[k]}
               /\ \A T \in DOMAIN sessions' : sessions'[T] = sessions[T]
               /\ wire' = Append(wire, StatusEvent(StatusOK))
        /\ pc[k] = "closeMissing" =>
               /\ pc'[k] # pc[k] => wire' = <<StatusEvent(StatusNotFound)>>
               /\ sessions' = sessions

\* C3: CloseSession(S) on an existing S sends every member the close
\* notification and then closes it, in insertion order, removes the entry and
\* returns found; on a missing S it returns not found, leaves the registry
\* unchanged and neither sends to nor closes any connection.
C3_CloseSession == [](CloseProgress /\ CloseAnswered) /\ [][CloseSteps]_vars

\* A session of two connections has been closed: both were notified and
\* closed in order, the entry is gone and 200 was written.
C3_Witness ==
    /\ pc[0] = "closeReturn"
    /\ Targets(wire) = <<1, 1, 2, 2, 0>>
    /\ wire[5].data = StatusOK
    /\ transport[1] = "closed" /\ transport[2] = "closed"

(* --------------------------------- C4 --------------------------------- *)

\* When a broadcast returns, every write that failed was followed by the
\* writes to all later members, and the connection it failed on is still at
\* its position in the collection.
FailureIsolated ==
    \A c \in Conns :
        pc[c] = "bcast" /\ pc'[c] = "read" =>
            LET after == Lookup(sessions', sid[c])
            IN  \A i \in 1..Len(wire) :
                    ~wire[i].ok =>
                        /\ i <= Len(after)
                        /\ after[i] = wire[i].conn
                        /\ \A j \in (i + 1)..Len(after) :
                               /\ j <= Len(wire)
                               /\ wire[j].op = "write"
                               /\ wire[j].conn = after[j]
                               /\ wire[j].data = msg[c]

\* C4: a failed send to one member does not stop a Broadcast: every other
\* member still gets its send attempt in the same call, and the failed
\* connection is still in the collection, at its position, on return.
C4_SendFailureIsolated == [][FailureIsolated]_vars

\* A broadcast is over whose first write failed and whose later writes succeeded.
C4_Witness ==
    \E c \in Conns :
        /\ pc[c] = "bcast"
        /\ idx[c] > Len(conns[c])
        /\ Len(wire) = 3
        /\ ~wire[1].ok /\ wire[2].ok /\ wire[3].ok
        /\ Lookup(sessions, sid[c]) = Targets(wire)

(* --------------------------------- C5 --------------------------------- *)

\* Leave(S, c) run to its end on registry m: removeConnection's read of the
\* session's slice followed by its body.
Leave(m, S, c) == removeConnection(m, S, Lookup(m, S), c)

\* A goroutine is taking the step that ends its removeConnection.
LeaveStep(c) == pc[c] = "remove" /\ pc'[c] = "done"

\* On the registry as it is, a second Leave changes nothing the first has
\* not changed, and a Leave of a connection that is not in the collection
\* changes nothing at all.
LeaveTwice ==
    \A S \in SessionIDs, c \in Conns :
        LET once == Leave(sessions, S, c)
        IN  /\ Leave(once, S, c) = once
            /\ c \notin Range(Lookup(sessions, S)) => once = sessions

\* The Leave a goroutine performs is that function of the registry, and
\* leaves a registry on which a repeated Leave is a no-op.
LeaveOnce ==
    \A c \in Conns :
        LeaveStep(c) =>
            /\ sessions' = Leave(sessions, sid[c], c)
            /\ Leave(sessions', sid[c], c) = sessions'
            /\ c \notin Range(Lookup(sessions, sid[c])) => sessions' = sessions

\* C5: Leave is idempotent: Leave(S, C); Leave(S, C) leaves the registry a
\* single Leave(S, C) leaves, and Leave(S, C) with C not in S's collection
\* leaves the whole registry unchanged.
C5_LeaveIdempotent == []LeaveTwice /\ [][LeaveOnce]_vars

\* The first connection has left a session the other two are still in: a
\* repeated Leave of it changes nothing, a Leave of the second would.
C5_Witness ==
    \E S \in SessionIDs :
        /\ pc[1] = "done"
        /\ Len(Lookup(sessions, S)) = 2
        /\ Leave(sessions, S, 2) # sessions
        /\ Leave(sessions, S, 1) = sessions

(* --------------------------------- C6 --------------------------------- *)

\* A Leave of a connection that is in the collection cuts out its first
\* occurrence and keeps every other element in place and order.
RemovesFirst ==
    \A c \in Conns :
        LeaveStep(c) /\ c \in Range(Lookup(sessions, sid[c])) =>
            LET old == sessions[sid[c]]
                new == Lookup(sessions', sid[c])
            IN  /\ sid[c] \in DOMAIN sessions'
                /\ Len(new) = Len(old) - 1
                /\ \E i \in 1..Len(old) :
                       /\ old[i] = c
                       /\ \A j \in 1..(i - 1) : old[j] # c
                       /\ \A j \in 1..Len(new) :
                              new[j] = IF j < i THEN old[j] ELSE old[j + 1]

\* C6: Leave(S, C) with C in S's collection removes exactly the first
\* occurrence of C; the other connections keep their relative order and the
\* length decreases by one.
C6_LeaveRemovesFirst == [][RemovesFirst]_vars

\* The first of three connections has left: the other two remain, in order.
C6_Witness ==
    \E S \in SessionIDs :
        /\ pc[1] = "done"
        /\ S \in DOMAIN sessions
        /\ sessions[S] = <<2, 3>>
        /\ 1 \notin evicted

(* --------------------------------- C7 --------------------------------- *)

\* A broadcast on a session without an entry has nothing to range over.
NothingToSend ==
    \A c \in Conns :
        pc[c] = "bcast" /\ sid[c] \notin DOMAIN sessions
            => conns[c] = <<>> /\ wire = <<>> /\ idx[c] = 1

\* Every step of a Broadcast or a Leave on a session without an entry leaves
\* the registry and the transports as they are, writes nothing and goes on
\* to the next position of the goroutine.
NoEntryNoEffect ==
    \A c \in Conns :
        /\ pc[c] \in {"relay", "bcast", "leave", "remove"}
        /\ sid[c] \notin DOMAIN sessions
        /\ pc'[c] # pc[c]
        => /\ sessions' = sessions
           /\ transport' = transport
           /\ wire = <<>> /\ wire' = <<>>
           /\ \/ pc[c] = "relay" /\ pc'[c] = "bcast"
              \/ pc[c] = "bcast" /\ pc'[c] = "read"
              \/ pc[c] = "leave" /\ pc'[c] = "remove"
              \/ pc[c] = "remove" /\ pc'[c] = "done"

\* C7: Broadcast(S, m) and Leave(S, C) on a session id without an entry are
\* no-ops: no send is attempted, no error state is reached, the registry is
\* unchanged and no entry for S is created.
C7_NoEntryNoOp == []NothingToSend /\ [][NoEntryNoEffect]_vars

\* The session of two connections was closed under them: the first has run a
\* broadcast into the missing session, the second is about to leave it.
C7_Witness ==
    /\ evicted = {1, 2}
    /\ DOMAIN sessions = {}
    /\ pc[1] = "bcast"
    /\ idx[1] > Len(conns[1])
    /\ pc[2] = "leave"

(* --------------------------------- C8 --------------------------------- *)

\* An entry disappears only in the step of handleClose that deletes it.
OnlyCloseDeletes ==
    \A S \in DOMAIN sessions :
        S \notin DOMAIN sessions' =>
            \E k \in Closers :
                pc[k] = "closeLoop" /\ sid[k] = S /\ pc'[k] = "closeReturn"

\* The Leave of the last member leaves an empty entry behind.
EmptyEntryStays ==
    \A c \in Conns :
        LeaveStep(c) /\ sid[c] \in DOMAIN sessions =>
            /\ sid[c] \in DOMAIN sessions'
            /\ sessions[sid[c]] = <<c>> => sessions'[sid[c]] = <<>>

\* A CloseSession finds every session that has an entry, an empty one too,
\* and answers 200 for it.
EmptyEntryFound ==
    \A k \in Closers :
        /\ pc[k] = "idle" /\ pc'[k] # "idle" =>
               (pc'[k] = "closeLoop" <=> sid'[k] \in DOMAIN sessions)
        /\ pc[k] = "closeLoop" /\ pc'[k] = "closeReturn" /\ sessions[sid[k]] = <<>> =>
               wire' = <<StatusEvent(StatusOK)>>

\* C8: CloseSession is the only operation that removes a session entry: no
\* Join, Leave or Broadcast step makes an entry absent, a session all of
\* whose members have left remains as an empty entry, and a CloseSession
\* issued then returns found.
C8_OnlyCloseRemovesEntry == [][OnlyCloseDeletes /\ EmptyEntryStays /\ EmptyEntryFound]_vars

\* Both members of a session have left it, and the CloseSession that came
\* after found the empty entry and answered 200.
C8_Witness ==
    /\ pc[1] = "done" /\ pc[2] = "done"
    /\ pc[3] = "idle"
    /\ evicted = {}
    /\ pc[0] = "closeReturn"
    /\ wire = <<StatusEvent(StatusOK)>>

(* --------------------------------- C9 --------------------------------- *)

\* No collection holds a connection whose session was closed under it.
NoLeftover == \A S \in DOMAIN sessions : Range(sessions[S]) \cap evicted = {}

\* No broadcast writes to a connection whose session was closed under it.
NoSendToLeftover ==
    \A c \in Conns :
        pc[c] = "bcast" => \A i \in 1..Len(wire) : wire[i].conn \notin evicted

\* The close deletes the entry, and the first join after it starts a
\* collection that holds the joining connection only.
FreshAfterClose ==
    /\ \A k \in Closers :
           pc[k] = "closeLoop" /\ pc'[k] = "closeReturn" =>
               /\ sid[k] \notin DOMAIN sessions'
               /\ Range(sessions[sid[k]]) \subseteq evicted'
    /\ \A c \in Conns :
           JoinStep(c) /\ sid[c] \notin DOMAIN sessions => sessions'[sid[c]] = <<c>>

\* C9: after CloseSession(S) has returned found, a subsequent Join(S, C')
\* yields a collection that contains C' only: no member from before the
\* close is in it, and a Broadcast to S makes no send attempt to any of them.
C9_FreshAfterClose == [](NoLeftover /\ NoSendToLeftover) /\ [][FreshAfterClose]_vars

\* Two connections were in a session when it was closed; a third has joined
\* the same id since and its broadcast has written to itself alone.
C9_Witness ==
    \E S \in SessionIDs :
        /\ evicted = {1, 2}
        /\ sid[1] = S /\ sid[2] = S /\ sid[3] = S
        /\ S \in DOMAIN sessions
        /\ sessions[S] = <<3>>
        /\ pc[3] = "bcast"
        /\ Targets(wire) = <<3>>

(* --------------------------------- C10 -------------------------------- *)

\* The goroutines inside a critical section.
InCritical == {x \in Ctx : pc[x] \in Critical}

\* At most one goroutine is inside a critical section, and then the mutex is held.
OneAtATime ==
    /\ Cardinality(InCritical) <= 1
    /\ mu <=> InCritical # {}

\* The map is written only by a step taken from inside a critical section,
\* and read into a local slice only by a step that ends inside one.
GuardedAccess ==
    /\ sessions' # sessions =>
           \E x \in InCritical : pc'[x] # pc[x] /\ \A y \in Ctx \ {x} : pc'[y] = pc[y]
    /\ \A x \in Ctx :
           conns'[x] # conns[x] /\ conns'[x] # <<>> =>
               /\ pc'[x] \in Critical
               /\ conns'[x] = Lookup(sessions, sid'[x])

\* C10: at most one execution context is inside a registry critical section
\* (the append of handleHost/handleJoin, broadcastMessage, removeConnection,
\* the body of handleClose), every read or write of the sessions map or of a
\* collection happens inside one, and none observes a partial update.
C10_MutualExclusion == [](OneAtATime /\ AtomicView) /\ [][GuardedAccess]_vars

\* One goroutine is inside broadcastMessage while another waits at the
\* mu.Lock() of broadcastMessage and a third at that of removeConnection.
C10_Witness ==
    /\ pc[1] = "bcast"
    /\ idx[1] = 2
    /\ pc[2] = "relay"
    /\ pc[3] = "leave"
    /\ mu

(* --------------------------------- C11 -------------------------------- *)

\* A Leave that comes after handleClose deleted the connection's entry, or
\* that finds the collection empty, leaves the registry as it is (no entry
\* is re-created, no later joiner is removed) and ends the goroutine.
LateLeaveHarmless ==
    \A c \in Conns :
        /\ pc[c] \in {"leave", "remove"}
        /\ c \in evicted \/ Lookup(sessions, sid[c]) = <<>>
        /\ pc'[c] # pc[c]
        => /\ sessions' = sessions
           /\ \/ pc[c] = "leave" /\ pc'[c] = "remove"
              \/ pc[c] = "remove" /\ pc'[c] = "done"

\* A connection whose entry was deleted is in no collection, whatever has
\* joined its session id since.
EvictedAbsent ==
    \A c \in evicted :
        /\ pc[c] \in Serving \cup {"leave", "remove"}
        /\ c \notin Range(Lookup(sessions, sid[c]))

\* C11: Leave races harmlessly with CloseSession: a Leave that runs after
\* the entry was deleted, or after the collection became empty, changes
\* nothing: no error state, no entry re-created for S, no connection removed
\* that joined S after the close.
C11_LeaveAfterClose == []EvictedAbsent /\ [][LateLeaveHarmless]_vars

\* The first connection's session was closed under it and two connections
\* have joined the same id since; the first is inside its removeConnection.
C11_Witness ==
    \E S \in SessionIDs :
        /\ 1 \in evicted
        /\ sid[1] = S
        /\ pc[1] = "remove"
        /\ S \in DOMAIN sessions
        /\ sessions[S] = <<2, 3>>

(* --------------------------------- C12 -------------------------------- *)

\* The connection is in no collection of the registry.
Unregistered(c) == \A S \in DOMAIN sessions : c \notin Range(sessions[S])

\* The positions of the deferred teardown and after it.
Terminating == {"defer", "leave", "remove", "done"}

\* ReadMessage returns an error only to leave the loop: the goroutine is in
\* the deferred function next, and from there it never reads again.
FailureEndsLoop ==
    \A c \in Conns :
        /\ pc[c] = "read" /\ pc'[c] # "read" /\ transport'[c] # "open"
               => pc'[c] = "defer"
        /\ pc[c] \in Terminating
               => pc'[c] \in Terminating /\ msg'[c] = NoMsg

\* C12: a failed connection eventually leaves: once ReadMessage on a joined
\* connection has returned an error, under fair scheduling the connection
\* eventually is in no collection and its goroutine has ended; the failed
\* read is not retried and always leads to the teardown.
C12_FailedConnectionLeaves ==
    /\ \A c \in Conns : pc[c] = "defer" ~> (pc[c] = "done" /\ Unregistered(c))
    /\ [][FailureEndsLoop]_vars

\* The peer of the second of three members has failed; its goroutine has
\* gone through the teardown and the collection holds the other two.
C12_Witness ==
    \E S \in SessionIDs :
        /\ S \in DOMAIN sessions
        /\ sessions[S] = <<1, 3>>
        /\ pc[2] = "done"
        /\ transport[2] = "closed"
        /\ pc[1] = "read" /\ pc[3] = "read"

(* --------------------------------- C13 -------------------------------- *)

\* A goroutine holds a message exactly from the return of ReadMessage to the
\* return of the broadcastMessage called with it, and every write of that
\* call carries the message, once per position of the slice.
OneMessageInHand ==
    \A c \in Conns :
        /\ msg[c] \in Msgs <=> pc[c] \in {"relay", "bcast"}
        /\ pc[c] = "bcast" =>
               /\ Len(wire) = idx[c] - 1
               /\ \A i \in 1..Len(wire) :
                      wire[i].op = "write" /\ wire[i].data = msg[c]

\* The loop is sequential: a message is read only when the goroutine holds
\* none (the broadcast of the one before has returned), the message read is
\* handed to one broadcastMessage unchanged, and that call returns before
\* anything else is read.
OneBroadcastPerMessage ==
    \A c \in Conns :
        /\ msg'[c] # msg[c] /\ msg'[c] \in Msgs
               => pc[c] = "read" /\ msg[c] = NoMsg /\ pc'[c] = "relay"
        /\ pc[c] = "relay" /\ pc'[c] # "relay"
               => pc'[c] = "bcast" /\ msg'[c] = msg[c] /\ wire' = <<>>
        /\ pc[c] = "bcast" /\ pc'[c] = "bcast"
               => /\ msg'[c] = msg[c]
                  /\ \/ idx'[c] = idx[c] /\ wire' = wire
                     \/ /\ idx'[c] = idx[c] + 1
                        /\ wire' = Append(wire, WriteEvent(conns[c][idx[c]], msg[c]))
        /\ pc[c] = "bcast" /\ pc'[c] # "bcast"
               => pc'[c] = "read" /\ msg'[c] = NoMsg /\ idx[c] > Len(conns[c])

\* C13: per-sender ordering: the broadcast of a message a goroutine has
\* received completes before the goroutine receives its next one, so every
\* connection sent both is sent them in the order received; each received
\* message triggers exactly one broadcast, with the payload unchanged.
C13_SenderOrder == []OneMessageInHand /\ [][OneBroadcastPerMessage]_vars

\* The first goroutine has sent "m2" to all three members and is about to
\* return from broadcastMessage, the second waits for the mutex with "m1".
C13_Witness ==
    /\ pc[1] = "bcast"
    /\ msg[1] = "m2"
    /\ Targets(wire) = <<1, 2, 3>>
    /\ idx[1] = 4
    /\ pc[2] = "relay"
    /\ msg[2] = "m1"

(* --------------------------------- C14 -------------------------------- *)

\* The positions of the whole registry that hold the connection.
Occurrences(c) ==
    {<<S, i>> \in SessionIDs \X (1..NumConns) :
        /\ S \in DOMAIN sessions
        /\ i <= Len(sessions[S])
        /\ sessions[S][i] = c}

\* No collection is longer than the number of connections there are.
CollectionsBounded == \A S \in DOMAIN sessions : Len(sessions[S]) <= NumConns

\* C14: each connection occurs at most once in the whole registry: in at
\* most one session's collection and at most once in it.
C14_AtMostOnce ==
    /\ CollectionsBounded
    /\ \A c \in Conns : Cardinality(Occurrences(c)) <= 1

\* Both sessions have members, all three connections are registered, each
\* at one position.
C14_Witness ==
    /\ DOMAIN sessions = {"a", "b"}
    /\ sessions["a"] = <<1, 3>>
    /\ sessions["b"] = <<2>>
    /\ \A c \in Conns : Cardinality(Occurrences(c)) = 1

(* --------------------------------- C15 -------------------------------- *)

\* handleClose has closed every connection of the entry it deleted, so the
\* ReadMessage of each of their goroutines can only fail.
EvictedClosed ==
    \A c \in evicted :
        /\ transport[c] = "closed"
        /\ ~ \E m \in Msgs : ENABLED ReadMessage(c, m)

\* A goroutine ends only out of removeConnection, its connection closed.
EndsThroughTeardown ==
    \A c \in Conns :
        pc'[c] = "done" /\ pc[c] # "done"
            => pc[c] = "remove" /\ transport[c] = "closed"

\* C15: CloseSession as cancellation: once handleClose has found and deleted
\* a session, under fair scheduling the goroutine of every connection that
\* was in it eventually has its read fail, runs the teardown (close, then
\* removeConnection) and ends; none stays in the receive loop forever.
C15_CloseCancels ==
    /\ \A c \in Conns : c \in evicted ~> (pc[c] = "done" /\ Unregistered(c))
    /\ []EvictedClosed
    /\ [][EndsThroughTeardown]_vars

\* handleClose has returned after deleting an entry of three connections;
\* their goroutines are at three different points of the teardown.
C15_Witness ==
    /\ evicted = {1, 2, 3}
    /\ pc[0] = "idle"
    /\ pc[1] = "remove"
    /\ pc[2] = "leave"
    /\ pc[3] = "defer"

(* --------------------------------- C16 -------------------------------- *)

\* A goroutine that has got to removeConnection has closed its connection.
LeaveAfterClose ==
    \A c \in Conns :
        pc[c] \in {"leave", "remove", "done"} => transport[c] = "closed"

\* The teardown is one pass: conn.Close(), then mu.Lock() of
\* removeConnection, then its body, then the end; the goroutine holds no
\* message, starts no broadcast and no join on the way or after, and only
\* its own conn.Close() or handleClose change its transport.
TeardownOrder ==
    \A c \in Conns :
        /\ pc[c] = "defer" /\ pc'[c] # "defer"
               => pc'[c] = "leave" /\ transport'[c] = "closed"
        /\ pc[c] = "leave" /\ pc'[c] # "leave"
               => pc'[c] = "remove" /\ mu' /\ ~mu
        /\ pc[c] = "remove" /\ pc'[c] # "remove"
               => /\ pc'[c] = "done"
                  /\ sessions' = removeConnection(sessions, sid[c], conns[c], c)
        /\ pc[c] = "done" => pc'[c] = "done"
        /\ pc[c] \in Terminating
               => /\ msg'[c] = NoMsg
                  /\ pc[c] \in {"leave", "remove", "done"}
                         => transport'[c] = transport[c]
                  /\ pc[c] # "remove" /\ pc'[c] # "done"
                         => Lookup(sessions', sid[c]) = Lookup(sessions, sid[c])
                            \/ \E x \in Ctx \ {c} : pc[x] \in Critical

\* C16: Terminating order: after a failed read the goroutine first closes
\* its connection and then calls removeConnection, each once, and ends; a
\* connection whose goroutine is in or past removeConnection is closed, and
\* the goroutine reads, broadcasts and joins no more.
C16_TeardownOrder == []LeaveAfterClose /\ [][TeardownOrder]_vars

\* The peer of the first connection failed; its goroutine has closed the
\* connection and removed it, the session goes on with the second while the
\* third, whose peer failed as well, is between Close and removeConnection.
C16_Witness ==
    /\ pc[1] = "done"
    /\ transport[1] = "closed"
    /\ evicted = {}
    /\ pc[0] = "idle"
    /\ pc[2] = "relay"
    /\ pc[3] = "leave"
    /\ "a" \in DOMAIN sessions
    /\ sessions["a"] = <<2, 3>>

(* --------------------------------- C17 -------------------------------- *)

\* The goroutines blocked in ReadMessage on a transport nothing has closed.
Blocked == {c \in Conns : pc[c] = "read" /\ transport[c] = "open"}

\* A goroutine in ReadMessage is in no critical section, and when every
\* goroutine that is somewhere is blocked in ReadMessage or waits for the
\* mutex, the mutex is free.
ReadersHoldNoLock ==
    /\ Blocked \cap InCritical = {}
    /\ mu => \E x \in Ctx \ Blocked : pc[x] \in Critical

\* With goroutines blocked in ReadMessage, whoever holds the mutex can take
\* its next step, and when nobody holds it every waiting or arriving
\* operation can take it: a join, a removeConnection, a broadcastMessage and
\* a handleClose.
OthersProceed ==
    Blocked # {} =>
        /\ \A c \in Conns :
               /\ pc[c] \in Critical => ENABLED Running(c)
               /\ ~mu /\ pc[c] = "relay" => ENABLED broadcastLock(c)
               /\ ~mu /\ pc[c] = "leave" => ENABLED removeLock(c)
               /\ ~mu /\ Fresh(c) =>
                      \A id \in SessionIDs :
                          /\ ENABLED (handleJoin(c, id, TRUE) /\ pc'[c] = "joinAppend")
                          /\ ENABLED (handleHost(c, id, TRUE) /\ pc'[c] = "hostAppend")
        /\ \A k \in Closers :
               /\ pc[k] \in Critical => ENABLED Closing(k)
               /\ ~mu /\ pc[k] = "idle" =>
                      \A id \in SessionIDs :
                          ENABLED (handleClose(k, id) /\ pc'[k] # "idle")

\* C17: a goroutine blocked in its receive holds no registry lock: in every
\* state in which some goroutine waits in ReadMessage, the join, leave,
\* broadcast and close operations of the other goroutines can still take
\* the mutex and run to their end.
C17_BlockedReaderHoldsNoLock == ReadersHoldNoLock /\ OthersProceed

\* The first goroutine is blocked in ReadMessage; the second is inside
\* removeConnection, the third waits to broadcast and a close can start.
C17_Witness ==
    /\ 1 \in Blocked
    /\ pc[2] = "remove"
    /\ pc[3] = "relay"
    /\ pc[0] = "idle"
    /\ sid[1] = sid[2] /\ sid[1] = sid[3]

(* --------------------------------- C18 -------------------------------- *)

\* The goroutine is inside broadcastMessage for a message of a connection
\* that is not in the collection it sends to.
StaleBroadcast(c) ==
    /\ pc[c] = "bcast"
    /\ c \notin Range(Lookup(sessions, sid[c]))

\* C18: whenever a goroutine executes broadcastMessage for a message read
\* on its connection, the connection is at that moment in the collection of
\* its session, so a message is never sent to a connection that joined only
\* after the sender's session was closed. The code does not keep this:
\* broadcastMessage looks the collection up by id and does not ask whether
\* the sender is in it, so a message read before handleClose deleted the
\* session is sent to the connections that joined the same id since.
C18_SenderIsMember ==
    \A c \in Conns : StaleBroadcast(c) => wire = <<>>

(* --------------------------------- C19 -------------------------------- *)

\* The connections whose goroutine has returned from removeConnection.
Ended == {c \in Conns : pc[c] = "done"}

\* An ended connection is in no collection, in no slice a broadcast or a
\* close is ranging over, and is the target of no write and no close of the
\* critical section in progress.
EndedUntouched ==
    \A c \in Ended :
        /\ Unregistered(c)
        /\ \A x \in Ctx : c \notin Range(conns[x])
        /\ \A i \in 1..Len(wire) : wire[i].conn # c

\* C19: once a goroutine has reached its end (removeConnection returned),
\* its connection is in no session's collection in every later state, and
\* no later broadcastMessage or handleClose makes a send attempt on it.
C19_EndedStaysOut ==
    /\ []EndedUntouched
    /\ [][Ended \subseteq Ended']_vars

\* The first connection has ended; the collection it was in has the other
\* two, and the broadcast of the second has written to exactly those.
C19_Witness ==
    /\ pc[1] = "done"
    /\ pc[2] = "bcast"
    /\ "a" \in DOMAIN sessions
    /\ sessions["a"] = <<2, 3>>
    /\ Targets(wire) = <<2, 3>>

(* --------------------------------- C20 -------------------------------- *)

\* The connection is in the collection of a session other than S.
InOtherSession(c, S) ==
    \E T \in DOMAIN sessions : T # S /\ c \in Range(sessions[T])

\* One goroutine moves at a time, and an entry is created, changed or
\* deleted only by the step of a goroutine working on that session id from
\* inside its critical section.
EntryFrame ==
    /\ Cardinality({x \in Ctx : pc'[x] # pc[x]}) <= 1
    /\ \A T \in SessionIDs :
           \/ /\ (T \in DOMAIN sessions') = (T \in DOMAIN sessions)
              /\ Lookup(sessions', T) = Lookup(sessions, T)
           \/ \E x \in Ctx :
                  /\ pc[x] \in Critical
                  /\ sid[x] = T
                  /\ pc'[x] # pc[x]

\* Every write and every close a broadcastMessage or a handleClose adds is
\* addressed to a connection of the session it works on, which is in no
\* other session's collection.
SendFrame ==
    Len(wire') > Len(wire) =>
        \A i \in (Len(wire) + 1)..Len(wire') :
            wire'[i].op \in {"write", "close"} =>
                \E x \in Ctx :
                    /\ pc[x] \in {"bcast", "closeLoop"}
                    /\ idx'[x] = idx[x] + 1
                    /\ wire'[i].conn \in Range(Lookup(sessions, sid[x]))
                    /\ ~InOtherSession(wire'[i].conn, sid[x])

\* A connection is closed by its own goroutine or by the handleClose of the
\* session it is in.
CloseFrame ==
    \A c \in Conns :
        transport'[c] = "closed" /\ transport[c] # "closed" =>
            \/ pc[c] = "defer"
            \/ \E k \in Closers :
                   /\ pc[k] = "closeLoop"
                   /\ c \in Range(Lookup(sessions, sid[k]))
                   /\ ~InOtherSession(c, sid[k])

\* C20: cross-session isolation: a join, removeConnection, broadcastMessage
\* or handleClose on one session id leaves the entry and the collection of
\* every other id unchanged, and a broadcastMessage or handleClose on it
\* makes no send attempt on, and does not close, a connection in another
\* session's collection.
C20_SessionsIsolated == [][EntryFrame /\ SendFrame /\ CloseFrame]_vars

\* handleClose has closed and deleted session "a" with two connections;
\* session "b" still has its entry and its member, open and reading.
C20_Witness ==
    /\ pc[0] = "closeReturn"
    /\ sid[0] = "a"
    /\ evicted = {1, 3}
    /\ DOMAIN sessions = {"b"}
    /\ sessions["b"] = <<2>>
    /\ transport[2] = "open"
    /\ pc[2] = "read"

====
